---- MODULE Spec2Model ----
(***************************************************************************)
(* Model of the SlideGenAI data pipeline: the aggregation engine           *)
(* (data_processor.process_data), the chart builder                        *)
(* (visualizations.create_visualization), the loader (utils.load_data),    *)
(* the insight requester (ai_summarizer.generate_summary), the deck        *)
(* writer (presentation_generator.create_presentation) and the session of  *)
(* the page (main.main).                                                   *)
(*                                                                         *)
(* A DataFrame is a record [columns, dtypes, rows]: the ordered column     *)
(* names, the dtype of each column and the rows in table order, each row a *)
(* function from column name to cell.  Text cells are strings and numeric  *)
(* cells are integers counting hundredths (1.00 is 100), so that a value   *)
(* rounded to 2 decimals is again a cell.  A missing cell (pandas NaN) is   *)
(* NaS in a text column and NaN in a numeric column.                       *)
(***************************************************************************)
EXTENDS Integers, Sequences, FiniteSets, TLC

VARIABLES heap, call, out

vars == <<heap, call, out>>

\* ------------------------------------------------------------------ bounds
\* rows of a table, and rows of a table with missing cells outside "region"
MaxRows == 3
MaxNaRows == 2

\* ------------------------------------------------------- values and tables
NaS == "NA"
NaN == 0 - 1

Columns == <<"region", "product", "channel", "sales">>
TextColumns == {"region", "product", "channel"}
RegionVals == {"A", "B", NaS}
ProductVals == {"p", NaS}
ChannelVals == {"web"}
SalesVals == {100, 200, NaN}

\* a column name that no table has
Ghost == "ghost"

Range(s) == {s[i] : i \in DOMAIN s}

\* pandas sorts group keys; text values are ordered as in this sequence
TextOrder == <<"A", "B", "p", "web", NaS>>
Rank(v) == CHOOSE i \in DOMAIN TextOrder : TextOrder[i] = v

RowSet == [region : RegionVals, product : ProductVals, channel : ChannelVals, sales : SalesVals]

\* read_csv infers a column of whole numbers as int64, and as float64 as soon
\* as one cell is missing; text is object
InferDTypes(rows) ==
    [c \in Range(Columns) |->
        IF c \in TextColumns THEN "object"
        ELSE IF \E i \in DOMAIN rows : rows[i][c] = NaN THEN "float64"
        ELSE "int64"]

MkFrame(rows) == [columns |-> Columns, dtypes |-> InferDTypes(rows), rows |-> rows]

NAOf(df, c) == IF df.dtypes[c] = "object" THEN NaS ELSE NaN

IsNA(df, i, c) == df.rows[i][c] = NAOf(df, c)

\* the tables load_data hands to the pipeline: at least one row, and no row
\* and no column that is missing throughout (both are dropped on load)
RowSeqs ==
    UNION {[1..n -> {r \in RowSet : r.product # NaS /\ r.sales # NaN}] : n \in 1..MaxRows}
    \cup UNION {[1..n -> RowSet] : n \in 1..MaxNaRows}

LoadedFrames ==
    {df \in {MkFrame(rows) : rows \in RowSeqs} :
        /\ \A i \in DOMAIN df.rows : \E c \in Range(Columns) : ~IsNA(df, i, c)
        /\ \A c \in Range(Columns) : \E i \in DOMAIN df.rows : ~IsNA(df, i, c)}

\* --------------------------------------------------------------- messages
\* an f-string is its fixed text and the column names interpolated into it
Msg(text, cols) == [text |-> text, cols |-> cols]

NoMsg == Msg("", <<>>)

\* ------------------------------------------------------------ validate_input
ValidMethods == {"sum", "mean", "count", "min", "max"}

AggCols(agg_methods) == [i \in DOMAIN agg_methods |-> agg_methods[i][1]]

\* a validation that looks at the value methods only when there are keys
validate_input_lenient(df, group_cols, agg_methods) ==
    IF group_cols # <<>> /\ ~(\A i \in DOMAIN group_cols : group_cols[i] \in Range(df.columns))
    THEN [ok |-> FALSE, msg |-> Msg("One or more grouping columns not found in data", <<>>)]
    ELSE IF group_cols # <<>> /\ ~(\A i \in DOMAIN agg_methods : agg_methods[i][2] \in ValidMethods)
    THEN [ok |-> FALSE, msg |-> Msg("Invalid aggregation method specified", <<>>)]
    ELSE IF group_cols # <<>> /\ ~(\A i \in DOMAIN agg_methods : agg_methods[i][1] \in Range(df.columns))
    THEN [ok |-> FALSE, msg |-> Msg("One or more aggregation columns not found in data", <<>>)]
    ELSE [ok |-> TRUE, msg |-> NoMsg]

validate_input(df, group_cols, agg_methods) ==
    IF group_cols # <<>> /\ ~(\A i \in DOMAIN group_cols : group_cols[i] \in Range(df.columns))
    THEN [ok |-> FALSE, msg |-> Msg("One or more grouping columns not found in data", <<>>)]
    ELSE IF agg_methods # <<>> /\ ~(\A i \in DOMAIN agg_methods : agg_methods[i][2] \in ValidMethods)
    THEN [ok |-> FALSE, msg |-> Msg("Invalid aggregation method specified", <<>>)]
    ELSE IF agg_methods # <<>> /\ ~(\A i \in DOMAIN agg_methods : agg_methods[i][1] \in Range(df.columns))
    THEN [ok |-> FALSE, msg |-> Msg("One or more aggregation columns not found in data", <<>>)]
    ELSE [ok |-> TRUE, msg |-> NoMsg]

\* ------------------------------------------------------- pandas primitives
\* select_dtypes(include=['int64', 'float64']).columns
NumericCols(df) == {c \in Range(df.columns) : df.dtypes[c] \in {"int64", "float64"}}

KeyOf(row, group_cols) == [i \in DOMAIN group_cols |-> row[group_cols[i]]]

\* a grouping that keeps the rows with a missing key (dropna=False)
KeyedRows_keepna(df, group_cols) == DOMAIN df.rows

\* groupby drops every row that has a missing value in one of its keys
KeyedRows(df, group_cols) ==
    {i \in DOMAIN df.rows : \A k \in DOMAIN group_cols : ~IsNA(df, i, group_cols[k])}

GroupKeys(df, group_cols) == {KeyOf(df.rows[i], group_cols) : i \in KeyedRows(df, group_cols)}

Members(df, group_cols, key) ==
    {i \in KeyedRows(df, group_cols) : KeyOf(df.rows[i], group_cols) = key}

KeyLess(a, b) ==
    \E i \in DOMAIN a : /\ \A j \in 1..(i - 1) : a[j] = b[j]
                        /\ Rank(a[i]) < Rank(b[i])

\* groupby(sort=True): the groups in ascending key order
RECURSIVE SortedKeys(_)
SortedKeys(S) ==
    IF S = {} THEN <<>>
    ELSE LET m == CHOOSE k \in S : \A o \in S \ {k} : KeyLess(k, o)
         IN <<m>> \o SortedKeys(S \ {m})

Present(df, idx, c) == {i \in idx : ~IsNA(df, i, c)}

RECURSIVE SumOver(_, _, _)
SumOver(df, idx, c) ==
    IF idx = {} THEN 0
    ELSE LET i == CHOOSE j \in idx : TRUE
         IN df.rows[i][c] + SumOver(df, idx \ {i}, c)

\* num/den cut off instead of rounded
RoundDown(num, den) == num \div den

\* num/den rounded to the nearest integer, halves to the even neighbour
RoundHalfEven(num, den) ==
    LET q == num \div den
        r == num % den
    IN IF 2 * r < den THEN q
       ELSE IF 2 * r > den THEN q + 1
       ELSE IF q % 2 = 0 THEN q ELSE q + 1

\* the cell of the first row of the group, missing or not (GroupBy.nth(0))
GroupFirst_row(df, idx, c) == df.rows[CHOOSE i \in idx : \A j \in idx : i <= j][c]

\* GroupBy.first(): the first non-missing cell of the column in the group
GroupFirst(df, idx, c) ==
    LET p == Present(df, idx, c)
    IN IF p = {} THEN NAOf(df, c)
       ELSE df.rows[CHOOSE i \in p : \A j \in p : i <= j][c]

\* the reductions skip missing cells; the result is exact, as num over den
GroupAgg(df, idx, c, method) ==
    LET p == Present(df, idx, c)
        n == Cardinality(p)
    IN CASE method = "count" -> [na |-> FALSE, num |-> 100 * n, den |-> 1]
         [] method = "sum"   -> [na |-> FALSE, num |-> SumOver(df, p, c), den |-> 1]
         [] method = "mean"  -> [na |-> n = 0, num |-> SumOver(df, p, c), den |-> IF n = 0 THEN 1 ELSE n]
         [] method = "min"   -> [na |-> n = 0, den |-> 1,
                                 num |-> IF n = 0 THEN 0 ELSE CHOOSE v \in {df.rows[i][c] : i \in p} :
                                                                \A i \in p : v <= df.rows[i][c]]
         [] method = "max"   -> [na |-> n = 0, den |-> 1,
                                 num |-> IF n = 0 THEN 0 ELSE CHOOSE v \in {df.rows[i][c] : i \in p} :
                                                                \A i \in p : v >= df.rows[i][c]]

AggDType(df, c, method) ==
    CASE method = "count" -> "int64"
      [] method = "mean"  -> "float64"
      [] OTHER            -> df.dtypes[c]

\* grouped_df[numeric_columns].round(2): only float64 columns are rounded;
\* an int64 result is a whole number and is stored as it is
Round2(dtype, x) ==
    IF x.na THEN NaN
    ELSE IF dtype = "float64" THEN RoundHalfEven(x.num, x.den)
    ELSE x.num \div x.den

\* ------------------------------------------------------------ process_data
\* the table itself handed back, not a copy
df_alias(df) == [fresh |-> FALSE, frame |-> df]

\* df.copy(): a new object holding the same columns, dtypes and rows
df_copy(df) == [fresh |-> TRUE, frame |-> df]

\* df.groupby(group_cols).first().reset_index(): the keys, then the other
\* columns in table order
groupby_first(df, group_cols) ==
    LET keys == SortedKeys(GroupKeys(df, group_cols))
        rest == SelectSeq(df.columns, LAMBDA c : c \notin Range(group_cols))
        cols == group_cols \o rest
    IN [columns |-> cols,
        dtypes  |-> [c \in Range(cols) |-> df.dtypes[c]],
        rows    |-> [g \in DOMAIN keys |->
                        [c \in Range(cols) |->
                            IF c \in Range(group_cols)
                            THEN keys[g][CHOOSE k \in DOMAIN group_cols : group_cols[k] = c]
                            ELSE GroupFirst(df, Members(df, group_cols, keys[g]), c)]]]

MethodOf(agg_methods, c) == agg_methods[CHOOSE i \in DOMAIN agg_methods : agg_methods[i][1] = c][2]

\* df.groupby(group_cols).agg(agg_dict).reset_index() followed by the
\* rounding of the float64 columns: the keys, then the value columns in the
\* order of the request
groupby_agg(df, group_cols, agg_methods) ==
    LET keys == SortedKeys(GroupKeys(df, group_cols))
        cols == group_cols \o AggCols(agg_methods)
        dts  == [c \in Range(cols) |->
                    IF c \in Range(group_cols) THEN df.dtypes[c]
                    ELSE AggDType(df, c, MethodOf(agg_methods, c))]
    IN [columns |-> cols,
        dtypes  |-> dts,
        rows    |-> [g \in DOMAIN keys |->
                        [c \in Range(cols) |->
                            IF c \in Range(group_cols)
                            THEN keys[g][CHOOSE k \in DOMAIN group_cols : group_cols[k] = c]
                            ELSE Round2(dts[c], GroupAgg(df, Members(df, group_cols, keys[g]), c,
                                                         MethodOf(agg_methods, c)))]]]

\* a check that refuses every non-numeric value column, counted or not
InvalidCols_counted(df, agg_methods) ==
    SelectSeq(AggCols(agg_methods), LAMBDA c : c \notin NumericCols(df))

\* the value columns that are not int64/float64 and are not merely counted
InvalidCols(df, agg_methods) ==
    SelectSeq(AggCols(agg_methods),
              LAMBDA c : c \notin NumericCols(df) /\ MethodOf(agg_methods, c) # "count")

Returned(fresh, frame, grouped) ==
    [status |-> "returned", fresh |-> fresh, frame |-> frame, grouped |-> grouped, msg |-> NoMsg]

\* an except clause that keeps the fixed text of the message only
Raised_unnamed(msg, grouped) ==
    [status |-> "raised", fresh |-> FALSE, frame |-> <<>>, grouped |-> grouped,
     msg |-> Msg("Data processing failed: " \o msg.text, <<>>)]

\* the except clause: every failure leaves as "Data processing failed: ..."
Raised(msg, grouped) ==
    [status |-> "raised", fresh |-> FALSE, frame |-> <<>>, grouped |-> grouped,
     msg |-> Msg("Data processing failed: " \o msg.text, msg.cols)]

process_data(df, group_cols, agg_methods) ==
    LET v == validate_input(df, group_cols, agg_methods)
    IN IF ~v.ok THEN Raised(v.msg, FALSE)
       ELSE IF group_cols = <<>> THEN
            LET c == df_copy(df) IN Returned(c.fresh, c.frame, FALSE)
       ELSE IF agg_methods = <<>> THEN Returned(TRUE, groupby_first(df, group_cols), TRUE)
       ELSE IF InvalidCols(df, agg_methods) # <<>> THEN
            Raised(Msg("Non-numeric columns cannot be aggregated with methods other than 'count': {}",
                       InvalidCols(df, agg_methods)), FALSE)
       ELSE IF Range(AggCols(agg_methods)) \cap Range(group_cols) # {} THEN
            \* reset_index cannot insert a key whose name is also a value column
            Raised(Msg("cannot insert {}, already exists",
                       SelectSeq(group_cols, LAMBDA c : c \in Range(AggCols(agg_methods)))), TRUE)
       ELSE LET grouped_df == groupby_agg(df, group_cols, agg_methods)
            IN IF grouped_df.rows = <<>>
               THEN Raised(Msg("Aggregation resulted in empty dataset", <<>>), TRUE)
               ELSE Returned(TRUE, grouped_df, TRUE)

\* --------------------------------------------------------- requests tried
Req(group_cols, agg_methods) == [group_cols |-> group_cols, agg_methods |-> agg_methods]

One(c, m) == << <<c, m>> >>

Requests ==
    {Req(<<>>, a) : a \in {<<>>, One("sales", "sum"), One("sales", "median"), One(Ghost, "sum"),
                            One("product", "mean")}}
    \cup {Req(<<Ghost>>, a) : a \in {<<>>, One("sales", "sum")}}
    \cup {Req(g, <<>>) : g \in {<<"region">>, <<"product">>, <<"region", "product">>}}
    \cup {Req(<<"region">>, One("sales", m)) : m \in ValidMethods \cup {"median"}}
    \cup {Req(<<"region">>, One("product", m)) : m \in {"count", "mean"}}
    \cup {Req(<<"region">>, a) : a \in {One(Ghost, "sum"), One("region", "count"),
                                        << <<"sales", "mean">>, <<"product", "count">> >>,
                                        << <<"product", "count">>, <<"sales", "sum">> >>}}
    \cup {Req(<<"region", "product">>, a) : a \in {One("sales", "mean"), One("sales", "sum"),
                                                   One("channel", "count"), One("channel", "mean")}}

\* ------------------------------------------------------------ state machine
\* heap[1] is the caller's table; a returned table is heap[2], unless the
\* call handed back the caller's own object
NoCall == [op |-> "none"]

NoOut == [status |-> "none"]

Init ==
    /\ heap \in {<<df>> : df \in LoadedFrames}
    /\ call = NoCall
    /\ out = NoOut

CallProcessData ==
    /\ call = NoCall
    /\ \E q \in Requests :
        LET r == process_data(heap[1], q.group_cols, q.agg_methods)
        IN /\ call' = [op |-> "process_data", group_cols |-> q.group_cols, agg_methods |-> q.agg_methods]
           /\ out' = [r EXCEPT !.frame = <<>>] @@ [ref |-> IF r.status = "raised" THEN 0
                                                          ELSE IF r.fresh THEN 2 ELSE 1]
           /\ heap' = IF r.status = "returned" /\ r.fresh THEN <<heap[1], r.frame>> ELSE <<heap[1]>>

\* the script runs again on the next user action: the results of the last run
\* are dropped, the uploaded table stays
Rerun ==
    /\ call # NoCall
    /\ call' = NoCall
    /\ out' = NoOut
    /\ heap' = <<heap[1]>>

Next == CallProcessData \/ Rerun

Spec == Init /\ [][Next]_vars

\* ===================================================== create_visualization
\* Python's None, for an argument left out and for a result part not produced
None == "None"

\* an exception carrying a message, or a value
Exc(msg) == [exc |-> TRUE, msg |-> msg, val |-> None]

Val(v) == [exc |-> FALSE, msg |-> NoMsg, val |-> v]

\* data.empty: no rows (or no columns)
IsEmpty(data) == data.rows = <<>> \/ data.columns = <<>>

\* the same checks with the columns looked at before the rows
viz_validate_columns_first(data, x_column, y_column, color_column) ==
    IF ~(x_column \in Range(data.columns) /\ y_column \in Range(data.columns))
    THEN Exc(Msg("Columns {} or {} not found in data", <<x_column, y_column>>))
    ELSE IF color_column # None /\ color_column \notin Range(data.columns)
    THEN Exc(Msg("Color column {} not found in data", <<color_column>>))
    ELSE IF IsEmpty(data)
    THEN Exc(Msg("Cannot create visualization from empty dataset", <<>>))
    ELSE Val(None)

\* lines 31-41: the checks made before anything is built
viz_validate(data, x_column, y_column, color_column) ==
    IF IsEmpty(data)
    THEN Exc(Msg("Cannot create visualization from empty dataset", <<>>))
    ELSE IF ~(x_column \in Range(data.columns) /\ y_column \in Range(data.columns))
    THEN Exc(Msg("Columns {} or {} not found in data", <<x_column, y_column>>))
    ELSE IF color_column # None /\ color_column \notin Range(data.columns)
    THEN Exc(Msg("Color column {} not found in data", <<color_column>>))
    ELSE Val(None)

\* viz_type.title()
TitleCase(viz_type) ==
    CASE viz_type = "bar"     -> "Bar"
      [] viz_type = "line"    -> "Line"
      [] viz_type = "scatter" -> "Scatter"
      [] viz_type = "pie"     -> "Pie"
      [] viz_type = "heatmap" -> "Heatmap"
      [] viz_type = "box"     -> "Box"
      [] OTHER                -> "Area"

Swappable == {"bar", "scatter", "line"}

\* a swap of the columns that leaves the labels where they were
viz_roles_columns_only(viz_type, x_column, y_column, title, x_label, y_label, orientation) ==
    LET xl == IF x_label # None THEN x_label ELSE x_column
        yl == IF y_label # None THEN y_label ELSE y_column
        t  == IF title # None THEN title ELSE TitleCase(viz_type) \o " Chart"
    IN IF orientation = "horizontal" /\ viz_type \in Swappable
       THEN [x |-> y_column, y |-> x_column, x_label |-> xl, y_label |-> yl, title |-> t]
       ELSE [x |-> x_column, y |-> y_column, x_label |-> xl, y_label |-> yl, title |-> t]

\* lines 45-53: defaults of the labels and the title, then the swap of the
\* roles of x and y for a horizontal bar, scatter or line chart
viz_roles(viz_type, x_column, y_column, title, x_label, y_label, orientation) ==
    LET xl == IF x_label # None THEN x_label ELSE x_column
        yl == IF y_label # None THEN y_label ELSE y_column
        t  == IF title # None THEN title ELSE TitleCase(viz_type) \o " Chart"
    IN IF orientation = "horizontal" /\ viz_type \in Swappable
       THEN [x |-> y_column, y |-> x_column, x_label |-> yl, y_label |-> xl, title |-> t]
       ELSE [x |-> x_column, y |-> y_column, x_label |-> xl, y_label |-> yl, title |-> t]

\* {x_column: x_label, y_column: y_label}: the later key wins
LabelsDict(r) == [c \in {r.x, r.y} |-> IF c = r.y THEN r.y_label ELSE r.x_label]

ColumnData(data, c) == IF c = None THEN <<>> ELSE [i \in DOMAIN data.rows |-> data.rows[i][c]]

\* a figure as plotly express leaves it: the chart kind, the column of each
\* role with its cells in table order, and the settings passed on
Fig(kind, data, r, color_column, labels, template, animation_frame) ==
    [kind |-> kind, x |-> r.x, y |-> r.y, color |-> color_column,
     xs |-> ColumnData(data, r.x), ys |-> ColumnData(data, r.y),
     cs |-> ColumnData(data, color_column),
     title |-> r.title, labels |-> labels, template |-> template,
     animation_frame |-> animation_frame, barmode |-> None, layout |-> None]

\* a check that lets every column through
pie_values_any(data, y_column) == TRUE

\* line 73: the values of a pie chart must be an int64 or float64 column
pie_values_ok(data, y_column) == y_column \in NumericCols(data)

\* pd.pivot_table(values, index, columns, aggfunc='mean'): the mean needs a
\* numeric values column; without a column to pivot on the table has the one
\* column of the means
\* a pivot that fails when there is no column to pivot on
pivot_needs_columns(data, y_column, color_column) ==
    y_column \in NumericCols(data) /\ color_column # None

pivot_ok(data, y_column, color_column) == y_column \in NumericCols(data)

\* the values of a sequence, each once, in the order of their first occurrence
RECURSIVE Unique(_)
Unique(s) ==
    IF s = <<>> THEN <<>>
    ELSE LET h == Unique(SubSeq(s, 1, Len(s) - 1))
         IN IF s[Len(s)] \in Range(h) THEN h ELSE Append(h, s[Len(s)])

\* the order pandas sorts the values of a column in
ValueLess(data, c, a, b) == IF data.dtypes[c] = "object" THEN Rank(a) < Rank(b) ELSE a < b

RECURSIVE SortedValues(_, _, _)
SortedValues(data, c, S) ==
    IF S = {} THEN <<>>
    ELSE LET m == CHOOSE v \in S : \A o \in S \ {v} : ValueLess(data, c, v, o)
         IN <<m>> \o SortedValues(data, c, S \ {m})

\* an index that keeps the values in the order the table has them
pivot_index_unsorted(data, c) ==
    Unique(SelectSeq(ColumnData(data, c), LAMBDA v : v # NAOf(data, c)))

\* the index (or the columns) of pd.pivot_table: the values of the column
\* that are not missing, each once, in ascending order
pivot_index(data, c) ==
    SortedValues(data, c, {data.rows[i][c] : i \in {j \in DOMAIN data.rows : ~IsNA(data, j, c)}})

\* line 77-78: the matrix of the means of values, one row for each value of
\* index and one column for each value of columns (one column, named after
\* values, when there is no column to pivot on); a cell is <<sum, count>>,
\* and <<>> where no row of the table falls
pivot_table(data, values, index, columns) ==
    LET idx  == pivot_index(data, index)
        cols == IF columns = None THEN <<values>> ELSE pivot_index(data, columns)
        rowsOf(i, j) ==
            {k \in DOMAIN data.rows :
                /\ data.rows[k][index] = idx[i]
                /\ columns # None => data.rows[k][columns] = cols[j]
                /\ ~IsNA(data, k, values)}
    IN [index |-> idx, columns |-> cols,
        cells |-> [i \in DOMAIN idx |-> [j \in DOMAIN cols |->
                     IF rowsOf(i, j) = {} THEN <<>>
                     ELSE <<SumOver(data, rowsOf(i, j), values), Cardinality(rowsOf(i, j))>>]]]

\* px.imshow(pivot_data, title=title): the matrix with its row and column
\* labels
Heatmap(data, r, color_column) ==
    LET p == pivot_table(data, r.y, r.x, color_column)
    IN [kind |-> "heatmap", x |-> r.x, y |-> r.y, color |-> color_column,
        xs |-> p.index, ys |-> p.cells, cs |-> p.columns,
        title |-> r.title, labels |-> None, template |-> None,
        animation_frame |-> None, barmode |-> None, layout |-> None]

\* lines 64-88: the figure for the chart kind, or the exception raised on the
\* way; plotly express itself may fail (px_ok = FALSE). px.bar puts its
\* default barmode, 'relative', in the layout of every bar chart, and lines
\* 66-67 set the same value again for a horizontal one
viz_figure(data, viz_type, r, color_column, theme, orientation, animation_frame, px_ok) ==
    LET kw == LabelsDict(r)
    IN CASE viz_type \in {"bar", "line", "scatter", "box"} ->
              IF ~px_ok \/ (animation_frame # None /\ animation_frame \notin Range(data.columns))
              THEN Exc(Msg("<plotly express>", <<>>))
              ELSE LET fig == [Fig(viz_type, data, r, color_column, kw, theme, animation_frame)
                                   EXCEPT !.barmode = IF viz_type = "bar" THEN "relative" ELSE None]
                   IN IF viz_type = "bar" /\ orientation = "horizontal"
                      THEN Val([fig EXCEPT !.barmode = "relative"])
                      ELSE Val(fig)
         [] viz_type = "pie" ->
              IF ~pie_values_ok(data, r.y)
              THEN Exc(Msg("Values for pie chart must be numeric", <<>>))
              ELSE IF ~px_ok THEN Exc(Msg("<plotly express>", <<>>))
              ELSE Val(Fig("pie", data, r, None, None, None, None))
         [] viz_type = "heatmap" ->
              IF ~pivot_ok(data, r.y, color_column) \/ ~px_ok
              THEN Exc(Msg("Error creating heatmap: <pivot>", <<>>))
              ELSE Val(Heatmap(data, r, color_column))
         [] OTHER -> Exc(Msg("Unsupported visualization type: {}", <<viz_type>>))

\* lines 91-122: size, legend, grid and the animation buttons
viz_layout(fig, show_grid, show_legend, animation_frame) ==
    [fig EXCEPT !.layout = [width |-> 800, height |-> 500, showlegend |-> show_legend,
                            showgrid |-> show_grid, buttons |-> animation_frame # None]]

\* a part of the result tuple: Nothing is Python's None, Some(v) a value
Nothing == <<>>

Some(v) == <<v>>

\* what create_visualization hands back: (html, svg, error), or the exception
\* that leaves it
VizReturn(html, svg, error) ==
    [status |-> "returned", html |-> html, svg |-> svg, error |-> error]

VizRaise(msg) ==
    [status |-> "raised", html |-> Nothing, svg |-> Nothing, error |-> Some(msg)]

\* lines 124-140: to_html and to_image (which needs the image engine)
viz_export(fig, export_ok) ==
    IF export_ok
    THEN VizReturn(Some([format |-> "html", fig |-> fig]), Some([format |-> "svg", fig |-> fig]), Nothing)
    ELSE VizReturn(Nothing, Nothing, Some(Msg("Error generating visualization: <export>", <<>>)))

\* lines 142-144
\* a handler that lets the exception through, instead of returning a result
except_reraise(msg) == VizRaise(msg)

except_inner(msg) ==
    VizReturn(Nothing, Nothing, Some(Msg("Error creating visualization: " \o msg.text, msg.cols)))

\* lines 146-148
except_outer(msg) == VizReturn(Nothing, Nothing, Some(Msg("Error: " \o msg.text, msg.cols)))

create_visualization(data, a, env) ==
    LET v == viz_validate(data, a.x_column, a.y_column, a.color_column)
    IN IF v.exc THEN except_outer(v.msg)
       ELSE LET r == viz_roles(a.viz_type, a.x_column, a.y_column, a.title, a.x_label,
                               a.y_label, a.orientation)
                f == viz_figure(data, a.viz_type, r, a.color_column, a.theme, a.orientation,
                                a.animation_frame, env.px_ok)
            IN IF f.exc THEN except_inner(f.msg)
               ELSE viz_export(viz_layout(f.val, a.show_grid, a.show_legend, a.animation_frame),
                               env.export_ok)

\* ------------------------------------------------------------ charts tried
VizKinds == {"bar", "line", "scatter", "pie", "heatmap", "box", "area"}

VizArgs(k, x, y, c, o, deco, anim) ==
    [viz_type |-> k, x_column |-> x, y_column |-> y, color_column |-> c, orientation |-> o,
     title |-> deco[1], x_label |-> deco[2], y_label |-> deco[3],
     theme |-> "plotly", show_grid |-> TRUE, show_legend |-> TRUE, animation_frame |-> anim]

Plain == <<None, None, None>>

VizRequests ==
    {VizArgs(k, xy[1], xy[2], c, o, d, None) :
        k \in VizKinds, xy \in {<<"region", "sales">>, <<"sales", "region">>},
        c \in {None, "product"}, o \in {"vertical", "horizontal"},
        d \in {Plain, <<"Sales by region", "X", "Y">>}}
    \cup {VizArgs(k, xy[1], xy[2], None, "vertical", Plain, None) :
        k \in VizKinds, xy \in {<<Ghost, "sales">>, <<"region", Ghost>>}}
    \cup {VizArgs(k, "region", "sales", c[1], "vertical", Plain, c[2]) :
        k \in VizKinds, c \in {<<Ghost, None>>, <<None, "region">>, <<None, Ghost>>}}

VizEnvs == {[px_ok |-> TRUE, export_ok |-> TRUE], [px_ok |-> FALSE, export_ok |-> TRUE],
            [px_ok |-> TRUE, export_ok |-> FALSE]}

\* the tables charts are built from: complete loaded tables, and the table
\* without rows that process_data can hand back
VizFrames ==
    {df \in LoadedFrames : \A i \in DOMAIN df.rows : \A c \in Range(Columns) : ~IsNA(df, i, c)}
    \cup {[columns |-> Columns, dtypes |-> InferDTypes(<<>>), rows |-> <<>>]}

InitViz ==
    /\ heap \in {<<df>> : df \in VizFrames}
    /\ call = NoCall
    /\ out = NoOut

CallCreateVisualization ==
    /\ call = NoCall
    /\ \E a \in VizRequests, env \in VizEnvs :
        /\ call' = [op |-> "create_visualization", args |-> a, env |-> env]
        /\ out' = create_visualization(heap[1], a, env)
        /\ heap' = heap

NextViz == CallCreateVisualization \/ Rerun

SpecViz == InitViz /\ [][NextViz]_vars

\* ================================================================ properties
\* ------------------------------------------------- vocabulary of the claims
IsProcessData == call.op = "process_data"

T == heap[1]

Result == heap[2]

ReturnedTable == out.status = "returned"

Exists(df, cols) == \A i \in DOMAIN cols : cols[i] \in Range(df.columns)

GroupedCall == IsProcessData /\ call.group_cols # <<>> /\ Exists(T, call.group_cols)

\* non-empty existing keys, existing value columns, methods of the fixed
\* set, numeric unless counted
ValidRequest ==
    /\ GroupedCall
    /\ \A i \in DOMAIN call.agg_methods :
          /\ call.agg_methods[i][1] \in Range(T.columns)
          /\ call.agg_methods[i][2] \in ValidMethods
          /\ \/ call.agg_methods[i][2] = "count"
             \/ T.dtypes[call.agg_methods[i][1]] \in {"int64", "float64"}

\* a valid request that names at least one value column
ValidAggregation == ValidRequest /\ call.agg_methods # <<>>

\* the key combinations of the rows of T, and those without a missing key
Combos == {KeyOf(T.rows[i], call.group_cols) : i \in DOMAIN T.rows}

FullCombos == {k \in Combos : \A i \in DOMAIN k : k[i] # NaS}

Carrying(k) == {i \in DOMAIN T.rows : KeyOf(T.rows[i], call.group_cols) = k}

OneRowPer(combos) ==
    /\ \A k \in combos :
          Cardinality({r \in DOMAIN Result.rows : KeyOf(Result.rows[r], call.group_cols) = k}) = 1
    /\ \A r \in DOMAIN Result.rows : KeyOf(Result.rows[r], call.group_cols) \in combos

\* ------------------------------------------------------------------- C1
\* C1: process_data(T, [], {}) returns a table equal to T in columns, order
\* and cells, as an object distinct from T, and leaves T as it was.
C1_CopyOnEmptyRequest ==
    [][(call'.op = "process_data" /\ call'.group_cols = <<>> /\ call'.agg_methods = <<>>)
        => /\ out'.status = "returned"
           /\ out'.ref # 1
           /\ heap'[out'.ref] = heap[1]
           /\ heap'[1] = heap[1]]_vars

C1_Witness ==
    /\ IsProcessData /\ call.group_cols = <<>> /\ call.agg_methods = <<>>
    /\ out.ref = 2 /\ Result = T /\ Len(T.rows) = MaxRows

\* ------------------------------------------------------------------- C2
\* C2 as stated: the table returned for a valid request has exactly one row
\* for each key combination occurring in a row of T, and no other row.
C2_Original ==
    (ValidAggregation /\ ReturnedTable) => OneRowPer(Combos)

\* C2 amended: the table returned for a valid request has exactly one row for
\* each key combination occurring in a row of T that has no missing key
\* value, and no other row; rows with a missing key are left out.
C2_OneRowPerFullCombo ==
    (ValidAggregation /\ ReturnedTable) => OneRowPer(FullCombos)

C2_Witness ==
    /\ ValidAggregation /\ ReturnedTable
    /\ Len(Result.rows) = 2
    /\ Combos # FullCombos

\* ------------------------------------------------------------------- C3
\* a call with existing keys whose only value method is c -> m, c a
\* non-numeric column of T that is not itself a key
TextValueCall(m) ==
    /\ GroupedCall
    /\ Range(AggCols(call.agg_methods)) \cap Range(call.group_cols) = {}
    /\ Len(call.agg_methods) = 1
    /\ call.agg_methods[1][2] = m
    /\ call.agg_methods[1][1] \in Range(T.columns)
    /\ T.dtypes[call.agg_methods[1][1]] = "object"

\* C3 as stated: on a non-numeric column "mean" always ends in an error and
\* "count" always returns a table.
C3_Original ==
    /\ TextValueCall("mean") => out.status = "raised"
    /\ TextValueCall("count") => ReturnedTable

\* C3 amended: on a non-numeric column c "mean" always ends in an error and
\* returns no table; "count" returns a table exactly when some row of T has
\* no missing group key, and ends in an error ("Aggregation resulted in empty
\* dataset") when every row of T has one.
C3_MeanFailsCountNeedsGroups ==
    /\ TextValueCall("mean") => (out.status = "raised" /\ Len(heap) = 1)
    /\ TextValueCall("count") => (ReturnedTable <=> FullCombos # {})
    /\ TextValueCall("count") => (ReturnedTable \/ out.status = "raised")

C3_Witness ==
    /\ TextValueCall("count") /\ ReturnedTable /\ Len(Result.rows) = 2
    /\ call.agg_methods = One("product", "count")
    /\ \E r \in DOMAIN Result.rows : Result.rows[r].product = 0

C3_WitnessMean == TextValueCall("mean") /\ out.status = "raised"

\* ------------------------------------------------------------------- C4
\* the cell of value column c in the output row r is the method applied to
\* the present cells of c in the rows of T carrying the key of r; the mean is
\* exact, or is the nearest multiple of 0.01
ValueCellIs(r, c, m, exact) ==
    LET rows == Carrying(KeyOf(Result.rows[r], call.group_cols))
        vals == {i \in rows : T.rows[i][c] # (IF T.dtypes[c] = "object" THEN NaS ELSE NaN)}
        n    == Cardinality(vals)
        x    == Result.rows[r][c]
    IN CASE m = "count" -> x = 100 * n
         [] m = "sum"   -> x = SumOver(T, vals, c)
         [] m = "mean"  -> IF n = 0 THEN x = NaN
                           ELSE IF exact THEN x # NaN /\ n * x = SumOver(T, vals, c)
                           ELSE /\ x # NaN
                                /\ 2 * (n * x - SumOver(T, vals, c)) <= n
                                /\ 2 * (SumOver(T, vals, c) - n * x) <= n
         [] m = "min"   -> IF n = 0 THEN x = NaN
                           ELSE /\ \E i \in vals : T.rows[i][c] = x
                                /\ \A i \in vals : x <= T.rows[i][c]
         [] m = "max"   -> IF n = 0 THEN x = NaN
                           ELSE /\ \E i \in vals : T.rows[i][c] = x
                                /\ \A i \in vals : x >= T.rows[i][c]

ValueCellsAre(exact) ==
    \A r \in DOMAIN Result.rows : \A i \in DOMAIN call.agg_methods :
        ValueCellIs(r, call.agg_methods[i][1], call.agg_methods[i][2], exact)

\* C4 as stated: every value cell of the output equals its method applied to
\* exactly the values of that column in the rows of its group.
C4_Original ==
    (ValidAggregation /\ ReturnedTable) => ValueCellsAre(TRUE)

\* C4 amended: every value cell of the output equals its method applied to
\* exactly the (non-missing) values of that column in the rows of its group,
\* rounded to 2 decimal places; each value column is reduced on its own.
C4_ValueCellsRounded ==
    (ValidAggregation /\ ReturnedTable) => ValueCellsAre(FALSE)

\* a mean that does not end after 2 decimals, beside a count
C4_Witness ==
    /\ ValidAggregation /\ ReturnedTable
    /\ call.agg_methods = << <<"sales", "mean">>, <<"product", "count">> >>
    /\ \E r \in DOMAIN Result.rows : Result.rows[r].sales = 133 /\ Result.rows[r].product = 300

\* region = [A, B, A], sales = [1, 2, 2] summed per region
C4_WitnessSum ==
    /\ ValidAggregation /\ ReturnedTable
    /\ call.agg_methods = One("sales", "sum")
    /\ T.rows = << [region |-> "A", product |-> "p", channel |-> "web", sales |-> 100],
                   [region |-> "B", product |-> "p", channel |-> "web", sales |-> 200],
                   [region |-> "A", product |-> "p", channel |-> "web", sales |-> 200] >>
    /\ Result.rows = << [region |-> "A", sales |-> 300], [region |-> "B", sales |-> 200] >>

\* ------------------------------------------------------------------- C5
FirstCall == GroupedCall /\ call.agg_methods = <<>>

NonKeys == {c \in Range(T.columns) : c \notin Range(call.group_cols)}

Missing(df, c) == IF df.dtypes[c] = "object" THEN NaS ELSE NaN

FirstRowOf(k) == CHOOSE i \in Carrying(k) : \A j \in Carrying(k) : i <= j

\* C5 as stated: without value methods the output has one row per key
\* combination, whose non-key cells are all those of the first row of T
\* carrying the combination, missing cells included.
C5_Original ==
    (FirstCall /\ ReturnedTable) =>
        /\ OneRowPer(FullCombos)
        /\ \A r \in DOMAIN Result.rows : \A c \in NonKeys :
              Result.rows[r][c] = T.rows[FirstRowOf(KeyOf(Result.rows[r], call.group_cols))][c]

\* C5 amended: without value methods the output has one row per key
\* combination without a missing key, and each non-key cell of that row is the
\* first non-missing value of its column among the rows of T carrying the
\* combination, in table order (missing only when all of them are missing):
\* the cells of one output row may come from different rows of T.
C5_FirstPresentCell ==
    (FirstCall /\ ReturnedTable) =>
        /\ OneRowPer(FullCombos)
        /\ \A r \in DOMAIN Result.rows : \A c \in NonKeys :
              LET rows == Carrying(KeyOf(Result.rows[r], call.group_cols))
                  x    == Result.rows[r][c]
              IN IF \A i \in rows : T.rows[i][c] = Missing(T, c)
                 THEN x = Missing(T, c)
                 ELSE \E i \in rows : /\ T.rows[i][c] = x
                                      /\ x # Missing(T, c)
                                      /\ \A j \in rows : j < i => T.rows[j][c] = Missing(T, c)

\* the first row of a group lacks a cell that a later row of the group has
C5_Witness ==
    /\ FirstCall /\ ReturnedTable /\ call.group_cols = <<"region">>
    /\ \E r \in DOMAIN Result.rows :
          LET i == FirstRowOf(KeyOf(Result.rows[r], call.group_cols))
          IN T.rows[i].product = NaS /\ Result.rows[r].product = "p"

\* ------------------------------------------------------------------- C6
\* C6: a call with non-empty group keys returns a table with at least one row
\* or ends in an error; it never returns an empty table.
C6_NeverEmpty ==
    (IsProcessData /\ call.group_cols # <<>>) =>
        \/ out.status = "raised"
        \/ ReturnedTable /\ Result.rows # <<>>

\* ------------------------------------------------------------------- C7
MissingKey == IsProcessData /\ ~Exists(T, call.group_cols)

MissingValueColumn ==
    /\ IsProcessData /\ Exists(T, call.group_cols)
    /\ \A i \in DOMAIN call.agg_methods : call.agg_methods[i][2] \in ValidMethods
    /\ ~Exists(T, AggCols(call.agg_methods))

\* the value columns that are not numeric and not merely counted
Offending ==
    {call.agg_methods[i][1] : i \in {j \in DOMAIN call.agg_methods :
        /\ call.agg_methods[j][2] # "count"
        /\ T.dtypes[call.agg_methods[j][1]] \notin {"int64", "float64"}}}

NonNumericValue ==
    /\ GroupedCall /\ call.agg_methods # <<>>
    /\ \A i \in DOMAIN call.agg_methods : call.agg_methods[i][2] \in ValidMethods
    /\ Exists(T, AggCols(call.agg_methods))
    /\ Offending # {}

Rejected == MissingKey \/ MissingValueColumn \/ NonNumericValue

Names(msg, cols) == cols \subseteq Range(msg.cols)

\* C7 as stated: whenever a request is rejected for a missing key, a missing
\* value column or a non-numeric value column, the error message names the
\* offending columns and the grouped reduction is not performed.
C7_Original ==
    /\ Rejected => (out.status = "raised" /\ ~out.grouped)
    /\ MissingKey => Names(out.msg, {c \in Range(call.group_cols) : c \notin Range(T.columns)})
    /\ MissingValueColumn =>
          Names(out.msg, {c \in Range(AggCols(call.agg_methods)) : c \notin Range(T.columns)})
    /\ NonNumericValue => Names(out.msg, Offending)

\* C7 amended: whenever a request is rejected for one of these reasons the
\* grouped reduction is not performed; the message names the offending columns
\* only for a non-numeric value column, while a missing group key or value
\* column is reported by a fixed message ("One or more grouping columns not
\* found in data", "One or more aggregation columns not found in data") that
\* names no column.
C7_OnlyNonNumericNamed ==
    /\ Rejected => (out.status = "raised" /\ ~out.grouped)
    /\ MissingKey =>
          /\ out.msg.cols = <<>>
          /\ out.msg.text = "Data processing failed: One or more grouping columns not found in data"
    /\ MissingValueColumn =>
          /\ out.msg.cols = <<>>
          /\ out.msg.text = "Data processing failed: One or more aggregation columns not found in data"
    /\ NonNumericValue => Range(out.msg.cols) = Offending

C7_Witness == NonNumericValue /\ out.status = "raised" /\ out.msg.cols = <<"product">>

C7_WitnessMissing == MissingValueColumn /\ call.group_cols # <<>> /\ out.status = "raised"

\* ------------------------------------------------------------------- C8
UngroupedCall == IsProcessData /\ call.group_cols = <<>>

IsCopy == ReturnedTable /\ out.ref = 2 /\ Result = T

\* C8 as stated: with empty group keys a full copy of the table is returned
\* for every value-methods argument, also one naming an absent column or an
\* unknown method.
C8_Original == UngroupedCall => IsCopy

\* C8 amended: with empty group keys a full copy of the table is returned
\* when the value methods are empty or name only existing columns with
\* methods of {sum, mean, count, min, max} (numeric or not); a mapping that
\* names an absent column or an unknown method is rejected with an error
\* first: value-method validation takes precedence over the identity policy.
C8_CopyAfterValidation ==
    UngroupedCall =>
        IF \A i \in DOMAIN call.agg_methods :
              /\ call.agg_methods[i][2] \in ValidMethods
              /\ call.agg_methods[i][1] \in Range(T.columns)
        THEN IsCopy
        ELSE out.status = "raised" /\ Len(heap) = 1

C8_Witness == UngroupedCall /\ call.agg_methods = One("product", "mean") /\ IsCopy

C8_WitnessRejected == UngroupedCall /\ call.agg_methods = One(Ghost, "sum") /\ out.status = "raised"

\* ------------------------------------------------------------------- C9
IsViz == call.op = "create_visualization"

Data == heap[1]

Success == out.html # Nothing /\ out.svg # Nothing /\ out.error = Nothing

Failure == out.html = Nothing /\ out.svg = Nothing /\ out.error # Nothing

\* C9: create_visualization never raises to its caller; for every table,
\* chart kind (unknown kinds too), column selection and option set it returns
\* a result that has either its content and no error message, or no content
\* and an error message.
C9_ResultPair ==
    IsViz => (out.status = "returned" /\ (Success \/ Failure) /\ ~(Success /\ Failure))

\* each way to fail has been taken: a check before building, the chart kind,
\* plotly express, the export
C9_Witness ==
    /\ IsViz /\ Failure /\ call.args.viz_type = "area"
    /\ out.error[1].text = "Error creating visualization: Unsupported visualization type: {}"

C9_WitnessSuccess == IsViz /\ Success /\ call.args.viz_type = "heatmap"

C9_WitnessExport == IsViz /\ Failure /\ ~call.env.export_ok /\ ~IsEmpty(Data)
                    /\ out.error[1].text = "Error generating visualization: <export>"

\* ------------------------------------------------------------------- C10
\* C10: for a non-empty table and a y_column that exists and is not numeric, a
\* pie chart request returns a failure (no content, an error message), never
\* a chart.
C10_PieNeedsNumeric ==
    (/\ IsViz /\ call.args.viz_type = "pie" /\ ~IsEmpty(Data)
     /\ call.args.y_column \in Range(Data.columns)
     /\ Data.dtypes[call.args.y_column] \notin {"int64", "float64"})
        => (out.status = "returned" /\ Failure)

C10_Witness ==
    /\ IsViz /\ call.args.viz_type = "pie" /\ ~IsEmpty(Data)
    /\ call.args.x_column = "sales" /\ call.args.y_column = "region"
    /\ call.env.px_ok /\ call.env.export_ok
    /\ Failure
    /\ out.error[1].text = "Error creating visualization: Values for pie chart must be numeric"

\* ------------------------------------------------------------------- C11
\* C11 as stated: on an empty table the result is a failure whose message is
\* exactly "Cannot create visualization from empty dataset", whatever the
\* chart kind and the columns.
C11_Original ==
    (IsViz /\ IsEmpty(Data)) =>
        /\ Failure
        /\ out.error[1] = Msg("Cannot create visualization from empty dataset", <<>>)

\* C11 amended: on an empty table the result is a failure whose message is
\* exactly "Error: Cannot create visualization from empty dataset" (the text
\* of the exception behind the prefix of the outer handler), whatever the
\* chart kind and the columns: the empty-table check precedes the column
\* checks.
C11_EmptyTableMessage ==
    (IsViz /\ IsEmpty(Data)) =>
        /\ out.status = "returned" /\ Failure
        /\ out.error[1] = Msg("Error: Cannot create visualization from empty dataset", <<>>)

\* an empty table asked for a column that no table has
C11_Witness ==
    /\ IsViz /\ IsEmpty(Data) /\ call.args.x_column = Ghost /\ call.args.viz_type = "heatmap"
    /\ Failure

\* ------------------------------------------------------------------- C12
HeatmapCall ==
    /\ IsViz /\ call.args.viz_type = "heatmap" /\ ~IsEmpty(Data)
    /\ Exists(Data, <<call.args.x_column, call.args.y_column>>)

EnvOk == call.env.px_ok /\ call.env.export_ok

\* C12 as stated: a heatmap of a non-empty table with existing x_column and
\* y_column and no color_column is a failure result.
C12_Original == (HeatmapCall /\ call.args.color_column = None) => Failure

\* C12 amended: a heatmap of a non-empty table without missing values, with
\* existing and different x_column and y_column, a numeric y_column and no
\* color_column, is a success result whenever plotly and the export succeed:
\* y_column is pivoted by x_column alone, into the one column of its means.
C12_HeatmapWithoutColor ==
    (HeatmapCall /\ call.args.color_column = None /\ EnvOk
        /\ call.args.x_column # call.args.y_column
        /\ call.args.y_column \in NumericCols(Data)) =>
        /\ Success
        /\ out.html[1].fig.kind = "heatmap"
        /\ out.html[1].fig.color = None

C12_Witness ==
    /\ HeatmapCall /\ call.args.color_column = None /\ EnvOk
    /\ call.args.x_column = "region" /\ call.args.y_column = "sales"
    /\ Len(Data.rows) = 2 /\ Success

\* ------------------------------------------------------------------- C13
\* the vertical request with x and y, and their labels, swapped beforehand
PreSwapped(a) ==
    [a EXCEPT !.orientation = "vertical",
              !.x_column = a.y_column, !.y_column = a.x_column,
              !.x_label = a.y_label, !.y_label = a.x_label]

OtherOrientation(a) ==
    [a EXCEPT !.orientation = IF a.orientation = "vertical" THEN "horizontal" ELSE "vertical"]

ChartCall == IsViz /\ ~IsEmpty(Data) /\ Exists(Data, <<call.args.x_column, call.args.y_column>>)

\* C13: a horizontal bar, line or scatter chart on (x=a, y=b, x_label=La,
\* y_label=Lb) gives the result (axis columns, label mapping, every layout
\* setting, or the same failure) of the vertical chart on (x=b, y=a,
\* x_label=Lb, y_label=La), default labels included; for pie, heatmap and box
\* the orientation changes nothing in the result.
C13_OrientationIsRelabeling ==
    ChartCall =>
        /\ (call.args.viz_type \in Swappable /\ call.args.orientation = "horizontal") =>
                out = create_visualization(Data, PreSwapped(call.args), call.env)
        /\ (call.args.viz_type \in {"pie", "heatmap", "box"}) =>
                out = create_visualization(Data, OtherOrientation(call.args), call.env)

\* a horizontal bar chart with labels of its own, built
C13_Witness ==
    /\ ChartCall /\ Success /\ call.args.viz_type = "bar" /\ call.args.orientation = "horizontal"
    /\ call.args.x_column = "region" /\ call.args.x_label = "X" /\ call.args.y_label = "Y"
    /\ out.html[1].fig.x = "sales" /\ out.html[1].fig.labels["sales"] = "Y"
    /\ Len(Data.rows) = 2

\* a horizontal box chart, whose roles stay where they were
C13_WitnessBox ==
    /\ ChartCall /\ Success /\ call.args.viz_type = "box" /\ call.args.orientation = "horizontal"
    /\ out.html[1].fig.x = call.args.x_column

\* ------------------------------------------------------------------- C14
\* the values the built chart lists along its category axis, in its order:
\* the rows of a heatmap, and for the other kinds the values of the category
\* column as the figure carries them, each once
FigOut == out.html[1].fig

Categories ==
    IF FigOut.kind = "heatmap" THEN FigOut.xs
    ELSE IF FigOut.x = call.args.x_column THEN Unique(FigOut.xs) ELSE Unique(FigOut.ys)

FirstAt(c, v) == CHOOSE i \in DOMAIN Data.rows : Data.rows[i][c] = v /\ \A j \in 1..(i - 1) : Data.rows[j][c] # v

DistinctValuesOf(c, s) ==
    /\ Range(s) = {Data.rows[i][c] : i \in DOMAIN Data.rows}
    /\ \A p, q \in DOMAIN s : p # q => s[p] # s[q]

InFirstOccurrenceOrder(c, s) ==
    /\ DistinctValuesOf(c, s)
    /\ \A p, q \in DOMAIN s : p < q => FirstAt(c, s[p]) < FirstAt(c, s[q])

InSortedOrder(c, s) ==
    /\ DistinctValuesOf(c, s)
    /\ \A p, q \in DOMAIN s : p < q => ValueLess(Data, c, s[p], s[q])

C14_WitnessHeatmap ==
    /\ IsViz /\ Success /\ call.args.color_column = None /\ call.args.viz_type = "heatmap"
    /\ ColumnData(Data, "region") = <<"B", "A", "B">>
    /\ Categories = <<"A", "B">>

\* ================================================================ load_data
\* A column name is the sequence of its characters.  An uploaded file is what
\* the upload widget hands over (nothing, or a name with its extension and a
\* size) and what its bytes hold: whether pandas can read the first row and
\* the rest, the names of the header and, for every data row, which of its
\* cells hold a value.
MaxFileRows == 2

MAX_SIZE_MB == 200

Lower == {"a", "b", "c", "d", "e", "f", "g", "h", "i", "j", "k", "l", "m",
          "n", "o", "p", "q", "r", "s", "t", "u", "v", "w", "x", "y", "z"}

Upper == {"A", "B", "C", "D", "E", "F", "G", "H", "I", "J", "K", "L", "M",
          "N", "O", "P", "Q", "R", "S", "T", "U", "V", "W", "X", "Y", "Z"}

Digits == <<"0", "1", "2", "3", "4", "5", "6", "7", "8", "9">>

\* the characters outside the class [^a-zA-Z0-9_]
IdentChars == Lower \cup Upper \cup Range(Digits) \cup {"_"}

FileHeaders ==
    {<<<<"a">>>>,
     <<<<"a">>, <<"b">>>>,
     <<<<"a">>, <<"a">>>>,
     <<<<"a", " ", "b">>, <<"a", "_", "b">>>>,
     <<<<"a">>, <<"b">>, <<"c">>>>,
     <<<<"a">>, <<"a">>, <<"b">>>>}

UploadedFile(present, ext, size_mb, parse, header, cells) ==
    [present |-> present, ext |-> ext, size_mb |-> size_mb, parse |-> parse,
     header |-> header, cells |-> cells]

CellRows(h) == UNION {[1..n -> [1..Len(h) -> BOOLEAN]] : n \in 0..MaxFileRows}

OneRow == <<<<TRUE, TRUE>>>>

Files ==
    UNION {{UploadedFile(TRUE, "csv", 1, "ok", h, cells) : cells \in CellRows(h)} : h \in FileHeaders}
    \cup {UploadedFile(FALSE, "", 0, "ok", <<>>, <<>>)}
    \cup {UploadedFile(TRUE, ext, 1, "ok", <<<<"a">>, <<"b">>>>, OneRow) : ext \in {"xlsx", "CSV", "txt"}}
    \cup {UploadedFile(TRUE, "csv", MAX_SIZE_MB + 1, "ok", <<<<"a">>, <<"b">>>>, OneRow)}
    \cup {UploadedFile(TRUE, "csv", 1, p, <<<<"a">>, <<"b">>>>, OneRow) : p \in {"bad_head", "bad_body"}}

\* str.lower() of the extension
lower(ext) == IF ext = "CSV" THEN "csv" ELSE ext

\* lines 7-47
validate_file(file) ==
    IF ~file.present THEN [ok |-> FALSE, msg |-> "No file was uploaded."]
    ELSE IF lower(file.ext) \notin {"csv", "xlsx"}
    THEN [ok |-> FALSE, msg |-> "Invalid file format. Please upload a CSV or Excel file."]
    ELSE IF file.size_mb > MAX_SIZE_MB
    THEN [ok |-> FALSE, msg |-> "File size exceeds 200MB limit. Please upload a smaller file."]
    ELSE IF file.parse = "bad_head"
    THEN [ok |-> FALSE, msg |-> "File format validation failed: <parser>"]
    ELSE [ok |-> TRUE, msg |-> ""]

\* read_csv and read_excel rename the repeats of a header name: the k-th
\* repeat of name becomes name.k
mangle_dupe_cols(header) ==
    [i \in DOMAIN header |->
        LET k == Cardinality({j \in 1..(i - 1) : header[j] = header[i]})
        IN IF k = 0 THEN header[i] ELSE header[i] \o <<".", Digits[k + 1]>>]

\* lines 62-69: the parsed table, or the failure of the parser; the bytes of a
\* file named .CSV are handed to read_excel, which cannot read them
read_file(file) ==
    IF file.parse = "bad_body" \/ file.ext = "CSV"
    THEN [ok |-> FALSE, df |-> <<>>]
    ELSE [ok |-> TRUE, df |-> [columns |-> mangle_dupe_cols(file.header), rows |-> file.cells]]

\* a test that finds no table empty
df_empty_never(df) == FALSE

\* DataFrame.empty: no rows or no columns
df_empty(df) == Len(df.rows) = 0 \/ Len(df.columns) = 0

\* the members of s at the positions in K, in order
RECURSIVE Keep(_, _)
Keep(s, K) ==
    IF s = <<>> THEN <<>>
    ELSE LET h == Keep(SubSeq(s, 1, Len(s) - 1), K)
         IN IF Len(s) \in K THEN Append(h, s[Len(s)]) ELSE h

\* line 77: dropna(how='all', axis=1)
dropna_columns(df) ==
    LET K == {j \in DOMAIN df.columns : \E i \in DOMAIN df.rows : df.rows[i][j]}
    IN [columns |-> Keep(df.columns, K), rows |-> [i \in DOMAIN df.rows |-> Keep(df.rows[i], K)]]

\* line 78: dropna(how='all', axis=0)
dropna_rows(df) ==
    [df EXCEPT !.rows = Keep(df.rows, {i \in DOMAIN df.rows : \E j \in DOMAIN df.rows[i] : df.rows[i][j]})]

\* line 95: str.replace('[^a-zA-Z0-9_]', '_') takes the pattern as a regular
\* expression in pandas 1 and as a literal text in pandas 2; no name here
\* holds the literal text of the pattern
str_replace(name, regex) ==
    IF regex THEN [i \in DOMAIN name |-> IF name[i] \in IdentChars THEN name[i] ELSE "_"]
    ELSE name

\* what load_data hands back, and what st.error has shown
Loaded(df) == [status |-> "returned", value |-> Some(df), error |-> Nothing]

Rejected_load(msg) == [status |-> "returned", value |-> Nothing, error |-> Some(msg)]

\* lines 49-101
load_data(file, regex) ==
    LET v == validate_file(file)
    IN IF ~v.ok THEN Rejected_load(v.msg)
       ELSE LET r == read_file(file)
            IN IF ~r.ok THEN Rejected_load("Error reading file: <parser>")
               ELSE IF df_empty(r.df) THEN Rejected_load("The uploaded file is empty")
               ELSE LET df == dropna_rows(dropna_columns(r.df))
                    IN IF Len(df.columns) < 2
                       THEN Rejected_load("The file must contain at least 2 columns")
                       ELSE IF Len(df.rows) < 1
                       THEN Rejected_load("The file must contain at least 1 row of data")
                       ELSE IF Len(df.columns) # Cardinality(Range(df.columns))
                       THEN Rejected_load("File contains duplicate column names. Please ensure all column names are unique.")
                       ELSE Loaded([df EXCEPT !.columns =
                                       [j \in DOMAIN df.columns |-> str_replace(df.columns[j], regex)]])

InitLoad ==
    /\ heap \in {<<f>> : f \in Files}
    /\ call = NoCall
    /\ out = NoOut

\* main.py line 80: load_data(uploaded_file), with the pandas that is installed
CallLoadData ==
    /\ call = NoCall
    /\ \E regex \in BOOLEAN :
        /\ call' = [op |-> "load_data", regex |-> regex]
        /\ out' = load_data(heap[1], regex)
        /\ heap' = heap

NextLoad == CallLoadData \/ Rerun

SpecLoad == InitLoad /\ [][NextLoad]_vars

\* ------------------------------------------------------------------- C15
IsLoad == call.op = "load_data"

File == heap[1]

Parsed == File.present /\ File.ext \in {"csv", "xlsx"} /\ File.size_mb <= MAX_SIZE_MB /\ File.parse = "ok"

NoTable == out.value = Nothing

HasDuplicate(names) == \E i, j \in DOMAIN names : i # j /\ names[i] = names[j]

C15_WitnessDuplicate ==
    /\ IsLoad /\ Parsed /\ File.header = <<<<"a">>, <<"a">>, <<"b">>>>
    /\ File.cells = <<<<TRUE, TRUE, TRUE>>>> /\ ~NoTable
    /\ out.value[1].columns[2][1] = "a" /\ Len(out.value[1].columns[2]) = 3

\* ------------------------------------------------------------------- C16
IdentName(name) == name # <<>> /\ \A i \in DOMAIN name : name[i] \in IdentChars

\* C16: every table returned by load_data has at least 2 columns and at least
\* 1 row, and its column names are pairwise distinct, non-empty and made of
\* the characters [a-zA-Z0-9_] only.
C16_ReturnedTableInvariant ==
    (IsLoad /\ ~NoTable) =>
        /\ Len(out.value[1].columns) >= 2
        /\ Len(out.value[1].rows) >= 1
        /\ ~HasDuplicate(out.value[1].columns)
        /\ \A j \in DOMAIN out.value[1].columns : IdentName(out.value[1].columns[j])

\* ========================================================== generate_summary
\* A text is the sequence of its characters, LF the line feed.  The upstream
\* service answers one attempt with a response whose content is a text or
\* None, or fails it with one of the errors of the openai package.  What
\* generate_summary returns is a list: the insight lines, or the one line of
\* a failure notice; shown is what st.error has put on the page.
StopAfterAttempt == 3

MaxInsights == 5

LF == "LF"

Whitespace == {" ", LF}

Contents ==
    {Nothing,
     Some(<<>>),
     Some(<<" ", LF, " ">>),
     Some(<<"x">>),
     Some(<<"a", LF, " ", "b", " ", LF, LF, "c">>),
     Some(<<"1", LF, "2", LF, "3", LF, "4", LF, "5", LF, "6">>)}

UpstreamErrors == {"rate_limit", "authentication", "connection"}

Upstream == {[kind |-> "ok", content |-> c] : c \in Contents}
            \cup {[kind |-> k, content |-> Nothing] : k \in UpstreamErrors}

SummaryEnvs == [api_key : BOOLEAN, data_empty : BOOLEAN]

\* str.split('\n')
RECURSIVE split(_)
split(s) ==
    IF \A i \in DOMAIN s : s[i] # LF THEN <<s>>
    ELSE LET i == CHOOSE k \in DOMAIN s : s[k] = LF /\ \A j \in 1..(k - 1) : s[j] # LF
         IN <<SubSeq(s, 1, i - 1)>> \o split(SubSeq(s, i + 1, Len(s)))

\* a strip that leaves the line as it is
strip_none(s) == s

\* str.strip()
RECURSIVE strip(_)
strip(s) ==
    IF s # <<>> /\ s[1] \in Whitespace THEN strip(Tail(s))
    ELSE IF s # <<>> /\ s[Len(s)] \in Whitespace THEN strip(SubSeq(s, 1, Len(s) - 1))
    ELSE s

\* line 97: [s.strip() for s in summary_text.split('\n') if s.strip()]
summaries_of(summary_text) ==
    LET lines == split(summary_text)
        NotBlank(s) == strip(s) # <<>>
        kept == SelectSeq(lines, NotBlank)
    IN [i \in DOMAIN kept |-> strip(kept[i])]

\* s[:n]
FirstN(s, n) == SubSeq(s, 1, IF Len(s) < n THEN Len(s) ELSE n)

GenReturn(insights, notice, shown) ==
    [status |-> "returned", insights |-> insights, notice |-> notice, shown |-> shown]

GenRaise(msg) ==
    [status |-> "raised", insights |-> <<>>, notice |-> Nothing, shown |-> Some(msg)]

\* lines 104-106
except_AIError(msg) ==
    GenReturn(<<>>, Some("Unable to generate AI summary: " \o msg), Some(msg))

\* lines 107-110
except_Exception(msg) ==
    GenReturn(<<>>, Some("An unexpected error occurred while generating the summary."),
              Some("Unexpected error in summary generation: " \o msg))

\* lines 32-40: every error of the openai package is an APIError, and leaves
\* call_openai_api as an AIError
AIErrorOf(kind) == "OpenAI API error: <" \o kind \o ">"

\* line 18: no retry= argument is given, so tenacity retries after every
\* exception, whatever its kind
retry_if_exception(msg) == TRUE

\* line 18: stop=stop_after_attempt(3)
stop_after_attempt(attempt_number) == attempt_number >= StopAfterAttempt

\* lines 96-102: a content of None has no split
after_call(content) ==
    IF content = Nothing THEN except_Exception("'NoneType' object has no attribute 'split'")
    ELSE LET summaries == summaries_of(content[1])
         IN IF summaries = <<>> THEN except_AIError("No valid insights generated")
            ELSE GenReturn(FirstN(summaries, MaxInsights), Nothing, Nothing)

InitSummary ==
    /\ heap \in {<<e>> : e \in SummaryEnvs}
    /\ call = NoCall
    /\ out = NoOut

\* lines 71-79: the checks that raise to the caller, then the first attempt
\* is due
CallGenerateSummary ==
    /\ call = NoCall
    /\ heap' = heap
    /\ IF heap[1].data_empty
       THEN /\ call' = [op |-> "generate_summary", pc |-> "done", attempts |-> <<>>]
            /\ out' = GenRaise("Cannot generate summary from empty dataset")
       ELSE IF ~heap[1].api_key
       THEN /\ call' = [op |-> "generate_summary", pc |-> "done", attempts |-> <<>>]
            /\ out' = GenRaise("OpenAI API key not found in environment variables")
       ELSE /\ call' = [op |-> "generate_summary", pc |-> "call_openai_api", attempts |-> <<>>]
            /\ out' = NoOut

\* lines 18-40 and 94: one attempt of call_openai_api; tenacity returns its
\* text, or tries again after the wait, or gives up with a RetryError, which
\* is no AIError
Attempt ==
    /\ call # NoCall /\ call.op = "generate_summary" /\ call.pc = "call_openai_api"
    /\ heap' = heap
    /\ \E u \in Upstream :
        LET log == Append(call.attempts, u)
        IN IF u.kind = "ok"
           THEN /\ call' = [call EXCEPT !.attempts = log, !.pc = "done"]
                /\ out' = after_call(u.content)
           ELSE IF retry_if_exception(AIErrorOf(u.kind)) /\ ~stop_after_attempt(Len(log))
           THEN /\ call' = [call EXCEPT !.attempts = log]
                /\ out' = out
           ELSE /\ call' = [call EXCEPT !.attempts = log, !.pc = "done"]
                /\ out' = IF retry_if_exception(AIErrorOf(u.kind))
                          THEN except_Exception("RetryError")
                          ELSE except_AIError(AIErrorOf(u.kind))

NextSummary == CallGenerateSummary \/ Attempt \/ Rerun

SpecSummary == InitSummary /\ [][NextSummary]_vars

\* ------------------------------------------------------------------- C17
IsSummary == call.op = "generate_summary"

Kinds(log) == [i \in DOMAIN log |-> log[i].kind]

\* a response that holds at least one character that is no whitespace
HasInsight(u) == u.content # Nothing /\ \E i \in DOMAIN u.content[1] : u.content[1][i] \notin Whitespace

InsightLine(s) ==
    /\ s # <<>> /\ s[1] \notin Whitespace /\ s[Len(s)] \notin Whitespace
    /\ \A i \in DOMAIN s : s[i] # LF

\* C17: when the first two attempts fail with a rate-limit error and the
\* third returns a text with an insight in it, generate_summary returns the
\* insight lines parsed from that text (its first 5 stripped non-blank lines)
\* and no error is surfaced; no call makes a fourth attempt.
C17_ThirdAttemptSucceeds ==
    IsSummary =>
        /\ Len(call.attempts) <= 3
        /\ (call.pc = "done" /\ Kinds(call.attempts) = <<"rate_limit", "rate_limit", "ok">>
                /\ HasInsight(call.attempts[3])) =>
              /\ out.status = "returned" /\ out.notice = Nothing /\ out.shown = Nothing
              /\ out.insights = FirstN(summaries_of(call.attempts[3].content[1]), 5)
              /\ Len(out.insights) \in 1..5
              /\ \A i \in DOMAIN out.insights : InsightLine(out.insights[i])

C17_Witness ==
    /\ IsSummary /\ call.pc = "done"
    /\ Kinds(call.attempts) = <<"rate_limit", "rate_limit", "ok">>
    /\ call.attempts[3].content = Some(<<"a", LF, " ", "b", " ", LF, LF, "c">>)
    /\ out = GenReturn(<<<<"a">>, <<"b">>, <<"c">>>>, Nothing, Nothing)

\* six lines in the text, five insights
C17_WitnessFive ==
    /\ IsSummary /\ call.pc = "done"
    /\ Kinds(call.attempts) = <<"rate_limit", "rate_limit", "ok">>
    /\ out.insights = <<<<"1">>, <<"2">>, <<"3">>, <<"4">>, <<"5">>>>

\* ------------------------------------------------------------------- C18
\* C18: an authentication failure is never retried: the attempt that fails
\* with an authentication error is the last attempt of its call.
C18_AuthenticationNotRetried ==
    IsSummary =>
        \A i \in DOMAIN call.attempts :
            call.attempts[i].kind = "authentication" => i = Len(call.attempts)

\* ======================================================= create_presentation
\* The deck is the sequence of its slides; a slide has the section of
\* create_presentation that made it, its title and its shapes in the order
\* they were added.  A table shape is the sequence of its rows of cell texts,
\* an unwritten cell being the empty text.  An entry of the visualizations
\* list is a dict: the set of its keys, its values, and whether python-pptx
\* can build a chart from its categories and series.
MaxDeckRows == 11

MaxCharts == 2

RowsPerSlide == 5

\* str() of a whole number below 100
str(v) == IF v < 10 THEN Digits[v + 1] ELSE Digits[(v \div 10) + 1] \o Digits[(v % 10) + 1]

DeckColumns == <<"id", "qty">>

DeckFrame(n) == [columns |-> DeckColumns, rows |-> [i \in 1..n |-> <<i, 2 * i>>]]

ChartKeys == {"type", "title", "categories", "series", "x_label", "y_label"}

VizEntry(keys, type, title, pptx_ok) ==
    [keys |-> keys, type |-> type, title |-> title, pptx_ok |-> pptx_ok]

VizEntries ==
    {VizEntry(ChartKeys, "bar", "Sales", TRUE),
     VizEntry(ChartKeys, "pie", "Share", TRUE),
     VizEntry(ChartKeys, "bar", "Broken", FALSE),
     VizEntry(ChartKeys \ {"title"}, "bar", "", TRUE),
     VizEntry({"html", "svg"}, "", "", TRUE)}

VizLists == UNION {[1..n -> VizEntries] : n \in 0..MaxCharts}

DeckInputs ==
    {[data |-> DeckFrame(n), summaries |-> <<"Sales grew", "B leads">>, visualizations |-> v] :
        n \in 0..MaxDeckRows, v \in VizLists}

Slide(section, title, shapes) == [section |-> section, title |-> title, shapes |-> shapes]

KeyError(key) == "'" \o key \o "'"

\* lines 45-57: the title and the axis titles of the chart that was added; a
\* pie chart has no value axis, and asking for it raises a ValueError that
\* hasattr lets through
chart_titles(chart_data) ==
    IF "title" \notin chart_data.keys THEN Exc(KeyError("title"))
    ELSE IF chart_data.type = "pie" THEN Exc("chart has no value axis")
    ELSE IF "y_label" \notin chart_data.keys THEN Exc(KeyError("y_label"))
    ELSE IF "x_label" \notin chart_data.keys THEN Exc(KeyError("x_label"))
    ELSE Val(None)

ChartShape(chart_data) == [kind |-> "chart", text |-> chart_data.type]

TextBox(text) == [kind |-> "textbox", text |-> text]

\* lines 17-62: the slide with what was added to it, and the exception raised
\* if one was
add_chart_to_slide(slide, chart_data) ==
    LET raise(e) == "Error adding chart to slide: " \o e
    IN IF "categories" \notin chart_data.keys
       THEN [slide |-> slide, exc |-> TRUE, msg |-> raise(KeyError("categories"))]
       ELSE IF "series" \notin chart_data.keys
       THEN [slide |-> slide, exc |-> TRUE, msg |-> raise(KeyError("series"))]
       ELSE IF "type" \notin chart_data.keys
       THEN [slide |-> slide, exc |-> TRUE, msg |-> raise(KeyError("type"))]
       ELSE IF ~chart_data.pptx_ok
       THEN [slide |-> slide, exc |-> TRUE, msg |-> raise("<pptx>")]
       ELSE LET with_chart == [slide EXCEPT !.shapes = Append(@, ChartShape(chart_data))]
                t == chart_titles(chart_data)
            IN IF t.exc
               THEN [slide |-> with_chart, exc |-> TRUE, msg |-> raise(t.msg)]
               ELSE [slide |-> with_chart, exc |-> FALSE, msg |-> ""]

\* a handler that lets the exception end the call
chart_except_reraise(slide, msg) == [slide |-> slide, raised |-> TRUE, msg |-> msg]

\* lines 104-109
chart_except(slide, msg) ==
    [slide |-> [slide EXCEPT !.shapes = Append(@, TextBox("Error adding visualization: " \o msg))],
     raised |-> FALSE, msg |-> ""]

\* lines 96-109: the slide of the entry at position idx + 1
viz_slide(idx, viz_data) ==
    LET title == IF "title" \in viz_data.keys THEN viz_data.title
                 ELSE "Visualization " \o str(idx + 1)
        r == add_chart_to_slide(Slide("visualization", title, <<>>), viz_data)
    IN IF r.exc THEN chart_except(r.slide, r.msg)
       ELSE [slide |-> r.slide, raised |-> FALSE, msg |-> ""]

Min(a, b) == IF a < b THEN a ELSE b

\* a table without the row of the header
table_rows_headless(n, i) == Min(RowsPerSlide + 1, n - i)

\* line 120: rows = min(6, len(data) - i + 1)
table_rows(n, i) == Min(RowsPerSlide + 1, n - i + 1)

\* lines 112-139: the slide of the rows from offset i (counted from 0)
data_slide(data, i) ==
    LET n    == Len(data.rows)
        rows == table_rows(n, i)
        cols == Len(data.columns)
        cells == [r \in 1..rows |-> [c \in 1..cols |->
                    IF r = 1 THEN data.columns[c]
                    ELSE IF i + (r - 2) < n THEN str(data.rows[i + (r - 2) + 1][c])
                    ELSE ""]]
    IN Slide("data", "Data Analysis", <<[kind |-> "table", cells |-> cells]>>)

\* range(0, len(data), 5)
Offsets(n) == [k \in 1..((n + RowsPerSlide - 1) \div RowsPerSlide) |-> (k - 1) * RowsPerSlide]

Bullet == "<bullet> "

\* lines 64-144
create_presentation(data, summaries, visualizations) ==
    LET title_slide   == Slide("title", "Data Analysis Report",
                               <<TextBox("Generated with AI Insights")>>)
        summary_slide == Slide("summary", "Key Insights",
                               [i \in DOMAIN summaries |-> TextBox(Bullet \o summaries[i])])
        viz  == [k \in DOMAIN visualizations |-> viz_slide(k - 1, visualizations[k])]
        offs == Offsets(Len(data.rows))
        tail == [k \in DOMAIN offs |-> data_slide(data, offs[k])]
    IN IF \E k \in DOMAIN viz : viz[k].raised
       THEN [status |-> "raised", path |-> Nothing, deck |-> <<>>]
       ELSE [status |-> "returned", path |-> Some("<tmp>.pptx"),
             deck |-> <<title_slide, summary_slide>> \o [k \in DOMAIN viz |-> viz[k].slide] \o tail]

InitDeck ==
    /\ heap \in {<<d>> : d \in DeckInputs}
    /\ call = NoCall
    /\ out = NoOut

\* main.py lines 286-290
CallCreatePresentation ==
    /\ call = NoCall
    /\ call' = [op |-> "create_presentation"]
    /\ out' = create_presentation(heap[1].data, heap[1].summaries, heap[1].visualizations)
    /\ heap' = heap

NextDeck == CallCreatePresentation \/ Rerun

SpecDeck == InitDeck /\ [][NextDeck]_vars

\* ------------------------------------------------------------------- C19
IsDeck == call.op = "create_presentation"

Input == heap[1]

Section(name) ==
    LET Is(s) == s.section = name
    IN SelectSeq(out.deck, Is)

RECURSIVE Flatten(_)
Flatten(ss) == IF ss = <<>> THEN <<>> ELSE Head(ss) \o Flatten(Tail(ss))

PageTable(p) == Section("data")[p].shapes[1].cells

Blank(row) == \A c \in DOMAIN row : row[c] = ""

\* C19: a table of n rows gives ceil(n/5) data pages; the table of each page
\* has the column names as its first row and then at most 5 data rows, none
\* of them unused, and the data rows of the pages, one page after the other,
\* are the rows of the table, each once and in table order.
C19_Pagination ==
    (IsDeck /\ out.status = "returned") =>
        LET n     == Len(Input.data.rows)
            pages == Section("data")
        IN /\ \E q \in 0..n : Len(pages) = q /\ 5 * q >= n /\ 5 * (q - 1) < n
           /\ \A p \in DOMAIN pages :
                /\ Len(pages[p].shapes) = 1
                /\ PageTable(p)[1] = Input.data.columns
                /\ Len(PageTable(p)) \in 2..6
                /\ \A r \in 2..Len(PageTable(p)) : ~Blank(PageTable(p)[r])
           /\ Flatten([p \in DOMAIN pages |-> Tail(PageTable(p))])
                = [i \in 1..n |-> [c \in DOMAIN Input.data.columns |-> str(Input.data.rows[i][c])]]

\* 11 rows on 3 pages, the last with one data row
C19_Witness ==
    /\ IsDeck /\ out.status = "returned" /\ Len(Input.data.rows) = 11
    /\ Len(Section("data")) = 3
    /\ PageTable(3) = <<<<"id", "qty">>, <<"11", "22">>>>

\* 10 rows fill 2 pages
C19_WitnessFull ==
    /\ IsDeck /\ out.status = "returned" /\ Len(Input.data.rows) = 10
    /\ Len(Section("data")) = 2 /\ Len(PageTable(2)) = 6

\* ------------------------------------------------------------------- C20
\* an entry whose chart cannot be added: a key is missing, python-pptx
\* cannot build the chart, or the chart is a pie chart (no value axis)
ChartFails(e) == ~(ChartKeys \subseteq e.keys) \/ ~e.pptx_ok \/ e.type = "pie"

IsNotice(shape) ==
    /\ shape.kind = "textbox"
    /\ shape.text \in {"Error adding visualization: Error adding chart to slide: " \o d :
                         d \in {"'categories'", "'title'", "<pptx>", "chart has no value axis"}}

\* C20: every entry of the visualizations list has one page of its own, in
\* the order of the list; when the chart of an entry cannot be added the page
\* carries an error notice, and otherwise a chart and no notice; the pages of
\* the other entries and all the data pages are produced, and a document path
\* is returned.
C20_ChartFailureIsNotice ==
    IsDeck =>
        /\ out.status = "returned" /\ out.path # Nothing
        /\ Len(Section("visualization")) = Len(Input.visualizations)
        /\ \A k \in DOMAIN Input.visualizations :
            LET page == Section("visualization")[k]
                e    == Input.visualizations[k]
            IN /\ ChartFails(e) <=> \E s \in DOMAIN page.shapes : IsNotice(page.shapes[s])
               /\ ~ChartFails(e) => page.shapes = <<ChartShape(e)>>
               /\ page.title = IF "title" \in e.keys THEN e.title ELSE "Visualization " \o str(k)
        /\ 5 * Len(Section("data")) >= Len(Input.data.rows)

\* an entry with html and svg only, then a chart that can be added, and data
C20_Witness ==
    /\ IsDeck /\ out.status = "returned" /\ Len(Input.visualizations) = 2
    /\ Input.visualizations[1].keys = {"html", "svg"}
    /\ ~ChartFails(Input.visualizations[2])
    /\ Section("visualization")[1].title = "Visualization 1"
    /\ Section("visualization")[1].shapes
         = <<TextBox("Error adding visualization: Error adding chart to slide: 'categories'")>>
    /\ Section("visualization")[2].shapes = <<ChartShape(Input.visualizations[2])>>
    /\ Len(Section("data")) = 2

\* ===================================================================== main
\* The session of main.py: the table of the uploaded file and the two lists
\* of st.session_state.  A list of summaries is the list generate_summary
\* returned: its insight lines, or (notice) the one line of a failure notice.
\* Every click runs the script once, with the widgets as the user left them.
SummaryList(insights, notice) == [insights |-> insights, notice |-> notice]

EmptyList == SummaryList(<<>>, Nothing)

ListOf(g) == SummaryList(g.insights, g.notice)

\* the truth value of a list: it has a member
Truthy(list) == list.insights # <<>> \/ list.notice # Nothing

\* lines 32-42
initialize_session_state == [df |-> Nothing, ai_summaries |-> EmptyList, visualizations |-> <<>>]

SessionFrames == {df \in VizFrames : Len(df.rows) \in 1..2}

\* what the multiselects of lines 109-128 can hold: existing columns, value
\* columns outside the keys, methods of the select box
SessionRequests ==
    {Req(<<>>, <<>>), Req(<<>>, One("sales", "sum")), Req(<<"region">>, <<>>),
     Req(<<"region">>, One("sales", "sum")), Req(<<"region">>, One("product", "mean"))}

\* line 165
selected_columns(q) == q.group_cols \o AggCols(q.agg_methods)

\* the answers of the upstream service to the attempts of one call: failures,
\* then a response or the last failure that tenacity allows
SessionRuns ==
    {<<u>> : u \in {v \in Upstream : v.kind = "ok"}}
    \cup {<<[kind |-> "rate_limit", content |-> Nothing], [kind |-> "rate_limit", content |-> Nothing],
            [kind |-> "ok", content |-> Some(<<"x">>)]>>}
    \cup {[i \in 1..StopAfterAttempt |-> [kind |-> "authentication", content |-> Nothing]]}

\* ai_summarizer.py lines 66-110, for the answers of run
generate_summary(data, api_key, run) ==
    IF IsEmpty(data) THEN GenRaise("Cannot generate summary from empty dataset")
    ELSE IF ~api_key THEN GenRaise("OpenAI API key not found in environment variables")
    ELSE IF run[Len(run)].kind = "ok" THEN after_call(run[Len(run)].content)
    ELSE except_Exception("RetryError")

\* str.lower() of a character, for the letters of "error"
lower_char(ch) ==
    CASE ch = "E" -> "e" [] ch = "R" -> "r" [] ch = "O" -> "o" [] OTHER -> ch

\* "error" in s.lower(), for a line of characters
line_has_error(s) ==
    LET word == <<"e", "r", "r", "o", "r">>
    IN \E i \in 1..(Len(s) - 4) : \A k \in 1..5 : lower_char(s[i + k - 1]) = word[k]

\* "error" in s.lower(), for the failure notices of generate_summary
notice_has_error(text) ==
    text \in {"An unexpected error occurred while generating the summary."}
             \cup {"Unable to generate AI summary: " \o AIErrorOf(k) : k \in UpstreamErrors}

\* line 144: any("error" in s.lower() for s in summaries)
any_error(list) ==
    \/ \E i \in DOMAIN list.insights : line_has_error(list.insights[i])
    \/ list.notice # Nothing /\ notice_has_error(list.notice[1])

Page(status, msg) == [status |-> status, msg |-> msg]

\* lines 48-64: the result of create_visualization is unpacked into four
\* names; a tuple of another length raises a ValueError, which line 62
\* catches
create_visualization_with_loading(result) ==
    IF Len(result) = 4 THEN result
    ELSE <<Nothing, Nothing, Nothing, Some("not enough values to unpack (expected 4, got 3)")>>

SessionVizArgs ==
    {VizArgs(k, "region", "sales", None, "vertical", <<"Sales by region", "region", "sales">>, None) :
        k \in {"bar", "pie"}}

InitSession ==
    /\ heap = <<initialize_session_state>>
    /\ call = NoCall
    /\ out = NoOut

\* lines 82-103: a file is uploaded and load_data returns its table
ClickUpload ==
    /\ call = NoCall /\ heap[1].df = Nothing
    /\ \E df \in SessionFrames :
        /\ heap' = <<[heap[1] EXCEPT !.df = Some(df)]>>
        /\ call' = [op |-> "upload"]
        /\ out' = Page("success", "Data loaded successfully!")

\* lines 138-154
ClickGenerateSummary ==
    /\ call = NoCall /\ heap[1].df # Nothing
    /\ \E q \in SessionRequests, run \in SessionRuns, api_key \in BOOLEAN :
        LET p == process_data(heap[1].df[1], q.group_cols, q.agg_methods)
            g == generate_summary(p.frame, api_key, run)
            failed == Page("error", "Error generating AI insights")
        IN /\ call' = [op |-> "generate_summary_button", request |-> q]
           /\ IF p.status = "raised" \/ g.status = "raised"
              THEN /\ heap' = <<[heap[1] EXCEPT !.ai_summaries = EmptyList]>>
                   /\ out' = failed
              ELSE IF Truthy(ListOf(g)) /\ ~any_error(ListOf(g))
              THEN /\ heap' = <<[heap[1] EXCEPT !.ai_summaries = ListOf(g)]>>
                   /\ out' = Page("success", "AI insights generated successfully!")
              ELSE /\ heap' = heap
                   /\ out' = Page("error", "Failed to generate meaningful insights. Please try adjusting your data selection.")

\* lines 252-274; inner is what create_visualization returned
ClickPreview ==
    /\ call = NoCall /\ heap[1].df # Nothing
    /\ \E q \in SessionRequests, a \in SessionVizArgs, env \in VizEnvs :
        /\ selected_columns(q) # <<>>
        /\ LET p == process_data(heap[1].df[1], q.group_cols, q.agg_methods)
               viz_data == IF q.group_cols # <<>> THEN p.frame ELSE heap[1].df[1]
               inner == create_visualization(viz_data, a, env)
               r == create_visualization_with_loading(<<inner.html, inner.svg, inner.error>>)
           IN IF q.group_cols # <<>> /\ p.status = "raised"
              THEN /\ call' = [op |-> "preview", request |-> q, inner |-> VizReturn(Nothing, Nothing, Nothing)]
                   /\ heap' = heap
                   /\ out' = Page("error", "Error previewing visualization")
              ELSE /\ call' = [op |-> "preview", request |-> q, inner |-> inner]
                   /\ IF r[1] # Nothing
                      THEN /\ heap' = <<[heap[1] EXCEPT !.visualizations =
                                            Append(@, [html |-> r[1][1], svg |-> r[2][1]])]>>
                           /\ out' = Page("chart", "")
                      ELSE /\ heap' = heap
                           /\ out' = Page("error", r[4][1])

\* lines 279-305; passed is the list handed to create_presentation
ClickGeneratePresentation ==
    /\ call = NoCall /\ heap[1].df # Nothing
    /\ \E q \in SessionRequests, run \in SessionRuns, api_key \in BOOLEAN :
        /\ selected_columns(q) # <<>>
        /\ LET p == process_data(heap[1].df[1], q.group_cols, q.agg_methods)
               g == generate_summary(p.frame, api_key, run)
               stored == heap[1].ai_summaries
               summaries == IF Truthy(stored) THEN stored ELSE ListOf(g)
           IN /\ call' = [op |-> "generate_presentation", request |-> q]
              /\ IF p.status = "raised" \/ (~Truthy(stored) /\ g.status = "raised")
                 THEN /\ heap' = heap
                      /\ out' = Page("error", "Error generating presentation")
                 ELSE /\ heap' = <<[heap[1] EXCEPT !.ai_summaries = summaries]>>
                      /\ out' = IF Truthy(summaries) /\ heap[1].visualizations # <<>>
                                THEN Page("presentation", "Presentation generated successfully!")
                                       @@ [passed |-> summaries]
                                ELSE Page("error", "Please generate AI insights and create at least one visualization before generating the presentation.")

NextSession ==
    ClickUpload \/ ClickGenerateSummary \/ ClickPreview \/ ClickGeneratePresentation \/ Rerun

SpecSession == InitSession /\ [][NextSession]_vars

\* ------------------------------------------------------------------- C21
Session == heap[1]

IsPreview == call.op = "preview"

InnerSuccess == call.inner.html # Nothing /\ call.inner.svg # Nothing /\ call.inner.error = Nothing

\* C21: whenever the create_visualization call of a Preview returns a
\* success result, the visualization has been appended to
\* session_state.visualizations (so that a later Generate Presentation can
\* produce a deck).
C21_SuccessIsAppended ==
    (IsPreview /\ InnerSuccess) =>
        /\ Session.visualizations # <<>>
        /\ Session.visualizations[Len(Session.visualizations)]
             = [html |-> call.inner.html[1], svg |-> call.inner.svg[1]]

\* what the session does instead: no visualization is ever stored, and no
\* click produces a deck
C21_NoDeckEver == Session.visualizations = <<>> /\ out.status # "presentation"

\* ------------------------------------------------------------------- C22
\* C22: session_state.ai_summaries holds only insight lines: the failure
\* list of generate_summary is never stored there and never handed to
\* create_presentation as the insights.
C22_OnlyGenuineInsights ==
    /\ Session.ai_summaries.notice = Nothing
    /\ out.status = "presentation" => out.passed.notice = Nothing

====
